---------------------------- MODULE Spec2Model ----------------------------
(***************************************************************************)
(* Model of elf.py: the schema-driven BinaryMarshaller over an in-memory   *)
(* byte buffer (io.BytesIO) and the ELF header protocol built on it        *)
(* (ELF._parse, ELF.serialize, ELF.read).                                  *)
(*                                                                         *)
(* A buffer is a sequence of bytes (0..255); the cursor `pos` is the       *)
(* 0-based BytesIO position.  Integers decoded from the buffer are kept as *)
(* integers; the inputs are chosen so that every decoded value is below    *)
(* 2^31.  The diagnostic printing of ELF.debug reads the global `args`,    *)
(* which the script defines at module level; it prints and changes no      *)
(* state, so it does not appear here.  Assertions are enabled (the         *)
(* interpreter's default).                                                 *)
(***************************************************************************)
EXTENDS Integers, Sequences, FiniteSets, TLC

(***************************************************************************)
(* Bounds of the model                                                     *)
(***************************************************************************)
MaxPh == 2
MaxSh == 2
MaxEmits == 2
MaxMuts == 1

(***************************************************************************)
(* Constants of elf.py                                                     *)
(***************************************************************************)
EI_NIDENT == 16
SELFMAG == 4
ELFMAG == <<127, 69, 76, 70>>
ELFCLASS32 == 1
ELFCLASS64 == 2
ELFDATA2LSB == 1
ELFDATA2MSB == 2
EV_CURRENT == 1

\* an identification block whose OS/ABI pair is one 16-bit integer
Elf_Ident_halfword == <<
    <<"ELF_MAG",       <<"char", SELFMAG>> >>,
    <<"EI_CLASS",      <<"uint8", 1>> >>,
    <<"EI_DATA",       <<"uint8", 1>> >>,
    <<"EI_VERSION",    <<"uint8", 1>> >>,
    <<"EI_OSABI",      <<"uint16", 1>> >>,
    <<"EI_PAD",        <<"char", 7>> >> >>

Elf_Ident == <<
    <<"ELF_MAG",       <<"char", SELFMAG>> >>,
    <<"EI_CLASS",      <<"uint8", 1>> >>,
    <<"EI_DATA",       <<"uint8", 1>> >>,
    <<"EI_VERSION",    <<"uint8", 1>> >>,
    <<"EI_OSABI",      <<"uint8", 1>> >>,
    <<"EI_ABIVERSION", <<"uint8", 1>> >>,
    <<"EI_PAD",        <<"char", 7>> >> >>

Elf32_Ehdr == <<
    <<"e_ident",     <<"Elf_Ident", 1>> >>,
    <<"e_type",      <<"Elf32_Half", 1>> >>,
    <<"e_machine",   <<"Elf32_Half", 1>> >>,
    <<"e_version",   <<"Elf32_Word", 1>> >>,
    <<"e_entry",     <<"Elf32_Addr", 1>> >>,
    <<"e_phoff",     <<"Elf32_Off", 1>> >>,
    <<"e_shoff",     <<"Elf32_Off", 1>> >>,
    <<"e_flags",     <<"Elf32_Word", 1>> >>,
    <<"e_ehsize",    <<"Elf32_Half", 1>> >>,
    <<"e_phentsize", <<"Elf32_Half", 1>> >>,
    <<"e_phnum",     <<"Elf32_Half", 1>> >>,
    <<"e_shentsize", <<"Elf32_Half", 1>> >>,
    <<"e_shnum",     <<"Elf32_Half", 1>> >>,
    <<"e_shstrndx",  <<"Elf32_Half", 1>> >> >>

Elf64_Ehdr == <<
    <<"e_ident",     <<"Elf_Ident", 1>> >>,
    <<"e_type",      <<"Elf64_Half", 1>> >>,
    <<"e_machine",   <<"Elf64_Half", 1>> >>,
    <<"e_version",   <<"Elf64_Word", 1>> >>,
    <<"e_entry",     <<"Elf64_Addr", 1>> >>,
    <<"e_phoff",     <<"Elf64_Off", 1>> >>,
    <<"e_shoff",     <<"Elf64_Off", 1>> >>,
    <<"e_flags",     <<"Elf64_Word", 1>> >>,
    <<"e_ehsize",    <<"Elf64_Half", 1>> >>,
    <<"e_phentsize", <<"Elf64_Half", 1>> >>,
    <<"e_phnum",     <<"Elf64_Half", 1>> >>,
    <<"e_shentsize", <<"Elf64_Half", 1>> >>,
    <<"e_shnum",     <<"Elf64_Half", 1>> >>,
    <<"e_shstrndx",  <<"Elf64_Half", 1>> >> >>

Elf32_Phdr == <<
    <<"p_type",   <<"Elf32_Word", 1>> >>,
    <<"p_offset", <<"Elf32_Off", 1>> >>,
    <<"p_vaddr",  <<"Elf32_Addr", 1>> >>,
    <<"p_paddr",  <<"Elf32_Addr", 1>> >>,
    <<"p_filesz", <<"Elf32_Word", 1>> >>,
    <<"p_memsz",  <<"Elf32_Word", 1>> >>,
    <<"p_flags",  <<"Elf32_Word", 1>> >>,
    <<"p_align",  <<"Elf32_Word", 1>> >> >>

Elf64_Phdr == <<
    <<"p_type",   <<"Elf64_Word", 1>> >>,
    <<"p_flags",  <<"Elf64_Word", 1>> >>,
    <<"p_offset", <<"Elf64_Off", 1>> >>,
    <<"p_vaddr",  <<"Elf64_Addr", 1>> >>,
    <<"p_paddr",  <<"Elf64_Addr", 1>> >>,
    <<"p_filesz", <<"Elf64_Xword", 1>> >>,
    <<"p_memsz",  <<"Elf64_Xword", 1>> >>,
    <<"p_align",  <<"Elf64_Xword", 1>> >> >>

Elf32_Shdr == <<
    <<"sh_name",      <<"Elf32_Word", 1>> >>,
    <<"sh_type",      <<"Elf32_Word", 1>> >>,
    <<"sh_flags",     <<"Elf32_Word", 1>> >>,
    <<"sh_addr",      <<"Elf32_Addr", 1>> >>,
    <<"sh_offset",    <<"Elf32_Off", 1>> >>,
    <<"sh_size",      <<"Elf32_Word", 1>> >>,
    <<"sh_link",      <<"Elf32_Word", 1>> >>,
    <<"sh_info",      <<"Elf32_Word", 1>> >>,
    <<"sh_addralign", <<"Elf32_Word", 1>> >>,
    <<"sh_entsize",   <<"Elf32_Word", 1>> >> >>

Elf64_Shdr == <<
    <<"sh_name",      <<"Elf64_Word", 1>> >>,
    <<"sh_type",      <<"Elf64_Word", 1>> >>,
    <<"sh_flags",     <<"Elf64_Xword", 1>> >>,
    <<"sh_addr",      <<"Elf64_Addr", 1>> >>,
    <<"sh_offset",    <<"Elf64_Off", 1>> >>,
    <<"sh_size",      <<"Elf64_Xword", 1>> >>,
    <<"sh_link",      <<"Elf64_Word", 1>> >>,
    <<"sh_info",      <<"Elf64_Word", 1>> >>,
    <<"sh_addralign", <<"Elf64_Xword", 1>> >>,
    <<"sh_entsize",   <<"Elf64_Xword", 1>> >> >>

(***************************************************************************)
(* Type catalog: type name -> struct format character -> byte width        *)
(***************************************************************************)
typeNames ==
    [ int8 |-> "b", uint8 |-> "B", int16 |-> "h", uint16 |-> "H",
      int32 |-> "i", uint32 |-> "I", int64 |-> "q", uint64 |-> "Q",
      float |-> "f", double |-> "d", char |-> "s",
      Elf32_Half |-> "H", Elf32_Word |-> "I", Elf32_Off |-> "I",
      Elf32_Addr |-> "I", Elf64_Half |-> "H", Elf64_Word |-> "I",
      Elf64_Off |-> "Q", Elf64_Addr |-> "Q", Elf64_Xword |-> "Q" ]

schemes == {"Elf_Ident", "Elf32_Ehdr", "Elf64_Ehdr"}

\* globals()[typeName] for the names in schemes
Globals(typeName) ==
    CASE typeName = "Elf_Ident"  -> Elf_Ident
      [] typeName = "Elf32_Ehdr" -> Elf32_Ehdr
      [] typeName = "Elf64_Ehdr" -> Elf64_Ehdr

\* struct.calcsize of one format character (standard sizes)
calcsize(typeFormat) ==
    CASE typeFormat \in {"b", "B", "s"} -> 1
      [] typeFormat \in {"h", "H"}      -> 2
      [] typeFormat \in {"i", "I", "f"} -> 4
      [] typeFormat \in {"q", "Q", "d"} -> 8

Min(a, b) == IF a < b THEN a ELSE b
Max(a, b) == IF a > b THEN a ELSE b

Zeros(n) == [i \in 1..n |-> 0]

(***************************************************************************)
(* struct.unpack / struct.pack of one unsigned integer                     *)
(***************************************************************************)
RECURSIVE unpackLE(_)
unpackLE(bs) ==
    IF bs = <<>> THEN 0 ELSE Head(bs) + 256 * unpackLE(Tail(bs))

RECURSIVE unpackBE(_)
unpackBE(bs) ==
    IF bs = <<>> THEN 0
    ELSE 256 * unpackBE(SubSeq(bs, 1, Len(bs) - 1)) + bs[Len(bs)]

\* a decoder that takes every value as little-endian
unpack_ignoresOrder(endian, bs) == unpackLE(bs)

\* "<" when the order is ELFDATA2LSB, ">" for every other value
unpack(endian, bs) ==
    IF endian = ELFDATA2LSB THEN unpackLE(bs) ELSE unpackBE(bs)

RECURSIVE packLE(_, _)
packLE(v, n) ==
    IF n = 0 THEN <<>> ELSE <<v % 256>> \o packLE(v \div 256, n - 1)

RECURSIVE packBE(_, _)
packBE(v, n) ==
    IF n = 0 THEN <<>> ELSE packBE(v \div 256, n - 1) \o <<v % 256>>

\* an encoder that lays every value down little-endian
pack_littleOnly(endian, v, n) == packLE(v, n)

\* "<" when the order is ELFDATA2LSB, ">" for every other value
pack(endian, v, n) ==
    IF endian = ELFDATA2LSB THEN packLE(v, n) ELSE packBE(v, n)

\* what is left of v above its n low bytes
RECURSIVE HighPart(_, _)
HighPart(v, n) == IF n = 0 THEN v ELSE HighPart(v \div 256, n - 1)

\* struct.pack accepts v for an unsigned format of n bytes
Fits(v, n) == v >= 0 /\ HighPart(v, n) = 0

\* struct.pack of a bytes object under "<count>s": cut or zero-padded
packChars(obj, count) ==
    [i \in 1..count |-> IF i <= Len(obj) THEN obj[i] ELSE 0]

(***************************************************************************)
(* io.BytesIO                                                              *)
(***************************************************************************)
\* file.read(n) at position p: the bytes read and the new position
fileRead(b, p, n) ==
    IF p >= Len(b) THEN [data |-> <<>>, pos |-> p]
    ELSE [data |-> SubSeq(b, p + 1, Min(p + n, Len(b))),
          pos  |-> Min(p + n, Len(b))]

\* file.write(d) at position p: the new buffer (zero-filled gap, extended)
fileWrite(b, p, d) ==
    IF d = <<>> THEN b
    ELSE (IF p <= Len(b) THEN SubSeq(b, 1, p) ELSE b \o Zeros(p - Len(b)))
         \o d
         \o SubSeq(b, p + Len(d) + 1, Len(b))

(***************************************************************************)
(* BinaryMarshaller                                                        *)
(***************************************************************************)
\* a read that does not notice a short value
ShortRead_unchecked(typeSize, value) == FALSE

\* the test `typeSize != len(value)` of read
ShortRead(typeSize, value) == typeSize # Len(value)

\* the empty dict
EmptyDict == [n \in {} |-> 0]

RECURSIVE readStruct(_, _, _, _)
RECURSIVE readFields(_, _, _, _, _, _)

\* BinaryMarshaller.read: [ok, val, pos]; ok = FALSE is the RuntimeError
\* "Not enough bytes in file to satisfy read request"
read(b, p, typeName, count, endian) ==
    IF typeName \in schemes
    THEN readStruct(b, p, Globals(typeName), endian)
    ELSE LET typeFormat == typeNames[typeName]
             typeSize   == count * calcsize(typeFormat)
             r          == fileRead(b, p, typeSize)
         IN  IF ShortRead(typeSize, r.data)
             THEN [ok |-> FALSE, val |-> 0, pos |-> r.pos]
             ELSE [ok  |-> TRUE,
                   val |-> IF typeFormat = "s" THEN r.data
                           ELSE unpack(endian,
                                  SubSeq(r.data, 1,
                                         Min(calcsize(typeFormat), Len(r.data)))),
                   pos |-> r.pos]

\* the loop of readStruct from field i on, res holding the fields read so far
readFields(b, p, scheme, endian, i, res) ==
    IF i > Len(scheme) THEN [ok |-> TRUE, val |-> res, pos |-> p]
    ELSE LET name     == scheme[i][1]
             typename == scheme[i][2][1]
             count    == scheme[i][2][2]
             r        == read(b, p, typename, count, endian)
         IN  IF ~r.ok THEN [ok |-> FALSE, val |-> res, pos |-> r.pos]
             ELSE readFields(b, r.pos, scheme, endian, i + 1,
                             res @@ (name :> r.val))

\* BinaryMarshaller.readStruct
readStruct(b, p, scheme, endian) ==
    readFields(b, p, scheme, endian, 1, EmptyDict)

RECURSIVE writeStruct(_, _, _, _, _)
RECURSIVE writeFields(_, _, _, _, _, _)

\* BinaryMarshaller.write: [ok, buf, pos]; ok = FALSE is struct.error
write(b, p, obj, typeName, count, endian) ==
    IF typeName \in schemes
    THEN writeStruct(b, p, obj, Globals(typeName), endian)
    ELSE LET typeFormat == typeNames[typeName]
             size       == calcsize(typeFormat)
         IN  IF typeFormat = "s"
             THEN [ok  |-> TRUE,
                   buf |-> fileWrite(b, p, packChars(obj, count)),
                   pos |-> p + count]
             ELSE IF count # 1 \/ ~Fits(obj, size)
             THEN [ok |-> FALSE, buf |-> b, pos |-> p]
             ELSE [ok  |-> TRUE,
                   buf |-> fileWrite(b, p, pack(endian, obj, size)),
                   pos |-> p + size]

\* the loop of writeStruct from field i on
writeFields(b, p, struct, scheme, endian, i) ==
    IF i > Len(scheme) THEN [ok |-> TRUE, buf |-> b, pos |-> p]
    ELSE LET name     == scheme[i][1]
             typename == scheme[i][2][1]
             count    == scheme[i][2][2]
             w        == write(b, p, struct[name], typename, count, endian)
         IN  IF ~w.ok THEN w
             ELSE writeFields(w.buf, w.pos, struct, scheme, endian, i + 1)

\* BinaryMarshaller.writeStruct
writeStruct(b, p, struct, scheme, endian) ==
    writeFields(b, p, struct, scheme, endian, 1)

\* number of bytes one record of a scheme occupies
RECURSIVE SchemeSize(_)
SchemeSize(scheme) ==
    IF scheme = <<>> THEN 0
    ELSE LET typename == Head(scheme)[2][1]
             count    == Head(scheme)[2][2]
         IN  (IF typename \in schemes THEN SchemeSize(Globals(typename))
              ELSE count * calcsize(typeNames[typename]))
             + SchemeSize(Tail(scheme))

(***************************************************************************)
(* Input buffers: ELF images built field by field, then cut to a length.   *)
(* Multi-byte fields are laid down in the order the parser decodes them    *)
(* under (little-endian for EI_DATA = 1, big-endian for any other value).  *)
(***************************************************************************)
BadMagic == <<127, 69, 76, 71>>
GapLen == 4

IdentBytes(magic, cls, data, ver) ==
    magic \o <<cls, data, ver, 3, 0>> \o <<0, 0, 0, 0, 0, 0, 9>>

\* the bytes of the fields k.. of a scheme carrying the values vals
RECURSIVE EncodeFields(_, _, _, _)
EncodeFields(data, scheme, vals, k) ==
    IF k > Len(scheme) THEN <<>>
    ELSE pack(data, vals[k], calcsize(typeNames[scheme[k][2][1]]))
         \o EncodeFields(data, scheme, vals, k + 1)

EhdrOf(cls) == IF cls = ELFCLASS64 THEN Elf64_Ehdr ELSE Elf32_Ehdr
PhdrOf(cls) == IF cls = ELFCLASS64 THEN Elf64_Phdr ELSE Elf32_Phdr
ShdrOf(cls) == IF cls = ELFCLASS64 THEN Elf64_Shdr ELSE Elf32_Shdr

\* entries carry values that decrease with the index, so that file order
\* differs from the order of any field
PhBytes(cls, data, i) ==
    EncodeFields(data, PhdrOf(cls),
                 [k \in 1..Len(PhdrOf(cls)) |-> 256 * k + 16 * (8 - i) + 1], 1)

ShBytes(cls, data, i) ==
    EncodeFields(data, ShdrOf(cls),
                 [k \in 1..Len(ShdrOf(cls)) |-> 256 * k + 16 * (8 - i) + 2], 1)

RECURSIVE PhTable(_, _, _, _)
PhTable(cls, data, i, n) ==
    IF i > n THEN <<>>
    ELSE PhBytes(cls, data, i) \o PhTable(cls, data, i + 1, n)

RECURSIVE ShTable(_, _, _, _)
ShTable(cls, data, i, n) ==
    IF i > n THEN <<>>
    ELSE ShBytes(cls, data, i) \o ShTable(cls, data, i + 1, n)

HeaderBytes(magic, cls, data, ver, phoff, shoff, np, ns) ==
    IdentBytes(magic, cls, data, ver)
    \o EncodeFields(data, Tail(EhdrOf(cls)),
         << 2, 259, 1, 258, phoff, shoff, 5, SchemeSize(EhdrOf(cls)),
            SchemeSize(PhdrOf(cls)), np, SchemeSize(ShdrOf(cls)), ns, 0 >>, 1)

Layouts == {"ph_sh", "sh_ph", "gap", "zero", "beyond"}

Image(magic, cls, data, ver, np, ns, layout) ==
    LET hs  == SchemeSize(EhdrOf(cls))
        phs == PhTable(cls, data, 1, np)
        shs == ShTable(cls, data, 1, ns)
    IN  CASE layout = "ph_sh" ->
               HeaderBytes(magic, cls, data, ver, hs, hs + Len(phs), np, ns)
               \o phs \o shs
          [] layout = "sh_ph" ->
               HeaderBytes(magic, cls, data, ver, hs + Len(shs), hs, np, ns)
               \o shs \o phs
          [] layout = "gap" ->
               HeaderBytes(magic, cls, data, ver, hs + GapLen,
                           hs + GapLen + Len(phs), np, ns)
               \o [i \in 1..GapLen |-> 170] \o phs \o shs
               \o [i \in 1..GapLen |-> 187]
          [] layout = "zero" ->
               HeaderBytes(magic, cls, data, ver, 0, 0, 0, 0)
               \o [i \in 1..GapLen |-> 170]
          [] layout = "beyond" ->
               HeaderBytes(magic, cls, data, ver, hs + GapLen + 3,
                           hs + GapLen + 7, np, ns)
               \o [i \in 1..GapLen |-> 170]

\* the lengths an image is cut to
Cuts(cls, img) ==
    { n \in { Len(img), Len(img) - 1, SchemeSize(EhdrOf(cls)),
              SchemeSize(EhdrOf(cls)) - 1, EI_NIDENT, EI_NIDENT - 1, 7, 4 } :
        n <= Len(img) }

WellFormedInputs ==
    UNION { UNION { { SubSeq(Image(ELFMAG, cls, data, EV_CURRENT, np, ns, layout), 1, n) :
                        n \in Cuts(cls, Image(ELFMAG, cls, data, EV_CURRENT, np, ns, layout)) } :
                    layout \in IF np = 0 /\ ns = 0 THEN Layouts
                               ELSE IF np <= 1 /\ ns <= 1
                               THEN Layouts \ {"zero"}
                               ELSE Layouts \ {"zero", "beyond"} } :
            <<cls, data, np, ns>> \in
                {ELFCLASS32, ELFCLASS64} \X {ELFDATA2LSB, ELFDATA2MSB}
                \X (0..MaxPh) \X (0..MaxSh) }

OddInputs ==
    UNION { { SubSeq(Image(magic, cls, data, ver, n, n, "ph_sh"), 1, len) :
                len \in Cuts(cls, Image(magic, cls, data, ver, n, n, "ph_sh")) } :
            <<magic, cls, data, ver, n>> \in
                {ELFMAG, BadMagic} \X (0..3) \X (0..3) \X {EV_CURRENT, 2}
                \X {0, 1} }

Inputs == WellFormedInputs \cup OddInputs

(***************************************************************************)
(* State                                                                   *)
(***************************************************************************)
VARIABLES
    buf,        \* self.file: the bytes of the BytesIO
    pos,        \* self.file: its position
    pc,         \* where the ELF object is in its life
    err,        \* the exception that ended _parse, "" if none
    e_ident,    \* self.e_ident
    endian,     \* _parse's local `endian`
    Elf_Ehdr,   \* the header scheme of the branch _parse took
    Elf_Phdr,   \* _parse's local Elf_Phdr
    Elf_Shdr,   \* _parse's local Elf_Shdr
    ehdr,       \* self.ehdr
    phdrs,      \* self.phdrs
    shdrs,      \* self.shdrs
    orig,       \* the bytes the object was constructed from
    maxRead,    \* the furthest position a read of _parse has reached
    emits,      \* number of calls of ELF.read so far
    muts,       \* number of caller mutations so far
    last,       \* the last call of ELF.read: its outcome and what it saw
    ret,        \* the last call made on a BinaryMarshaller directly
    held        \* what the marshaller's caller holds: its parameters, its map

vars == << buf, pos, pc, err, e_ident, endian, Elf_Ehdr, Elf_Phdr, Elf_Shdr,
           ehdr, phdrs, shdrs, orig, maxRead, emits, muts, last,
           ret, held >>

model == << e_ident, ehdr, phdrs, shdrs >>
locals == << endian, Elf_Ehdr, Elf_Phdr, Elf_Shdr >>
marshalling == << ret, held >>
history == << orig, emits, muts, last, ret, held >>

NoCall == [status |-> "none", err |-> "", out |-> <<>>, pre |-> <<>>,
           prePos |-> 0, first |-> <<>>, muts |-> 0]

NoRet == [op |-> "none", off |-> 0, ok |-> TRUE, val |-> 0,
          prevOp |-> "none", prevOff |-> 0, again |-> FALSE]

NoHeld == [scheme |-> "", order |-> 0, at |-> 0, has |-> FALSE, m |-> <<>>,
           from |-> 0, pre |-> <<>>, written |-> FALSE, m0 |-> <<>>]

\* a seek that stops at the end of the file
seek_clamped(offset) == Min(offset, Len(buf))

\* bm.seek(offset): absolute and unchecked
seek(offset) == offset

\* a parse that takes the narrow program-header scheme for either class
Scheme_narrow(name) ==
    CASE name = "Elf32_Ehdr" -> Elf32_Ehdr
      [] name = "Elf64_Ehdr" -> Elf64_Ehdr
      [] name = "Elf32_Phdr" -> Elf32_Phdr
      [] name = "Elf64_Phdr" -> Elf32_Phdr
      [] name = "Elf32_Shdr" -> Elf32_Shdr
      [] name = "Elf64_Shdr" -> Elf64_Shdr

\* the scheme a local names
Scheme(name) ==
    CASE name = "Elf32_Ehdr" -> Elf32_Ehdr
      [] name = "Elf64_Ehdr" -> Elf64_Ehdr
      [] name = "Elf32_Phdr" -> Elf32_Phdr
      [] name = "Elf64_Phdr" -> Elf64_Phdr
      [] name = "Elf32_Shdr" -> Elf32_Shdr
      [] name = "Elf64_Shdr" -> Elf64_Shdr

\* ELF.__init__ before _parse: the file is read into a BytesIO
Init ==
    /\ buf \in Inputs
    /\ orig = buf
    /\ pos = 0
    /\ pc = "Unparsed"
    /\ err = ""
    /\ e_ident = EmptyDict
    /\ endian = 0
    /\ Elf_Ehdr = ""
    /\ Elf_Phdr = ""
    /\ Elf_Shdr = ""
    /\ ehdr = EmptyDict
    /\ phdrs = <<>>
    /\ shdrs = <<>>
    /\ maxRead = 0
    /\ emits = 0
    /\ muts = 0
    /\ last = NoCall
    /\ ret = NoRet
    /\ held = NoHeld

(***************************************************************************)
(* ELF._parse                                                              *)
(***************************************************************************)
\* a parse that does not look at the magic
MagicOk_skipped(ident) == TRUE

\* assert(self.e_ident["ELF_MAG"] == ELFMAG)
MagicOk(ident) == ident["ELF_MAG"] = ELFMAG

\* a parse that does not look at the version
VersionOk_skipped(ident) == TRUE

\* assert(self.e_ident["EI_VERSION"] == EV_CURRENT)
VersionOk(ident) == ident["EI_VERSION"] = EV_CURRENT

\* a loop that stops one round early
InRange_short(i, n) == i + 1 < n

\* `for _ in range(n)` goes round again after i rounds
InRange(i, n) == i < n

\* a list that takes its new entry at the front
append_front(list, x) == <<x>> \o list

\* list.append(x)
append(list, x) == Append(list, x)

\* a parse that stays where it is when a step raises
Fail_retry(kind) ==
    /\ pc' = pc
    /\ err' = kind

\* an exception leaves _parse: the construction of the object has failed
Fail(kind) ==
    /\ pc' = "Failed"
    /\ err' = kind

\* readStruct(Elf_Ident) under the nominal order, then the two assertions
ReadIdent ==
    /\ pc = "Unparsed"
    /\ LET r == readStruct(buf, pos, Elf_Ident, ELFDATA2MSB)
       IN  /\ pos' = r.pos
           /\ maxRead' = Max(maxRead, r.pos)
           /\ IF ~r.ok
              THEN Fail("TruncatedInput") /\ UNCHANGED << e_ident, endian >>
              ELSE /\ e_ident' = r.val
                   /\ IF ~MagicOk(r.val)
                      THEN Fail("MagicMismatch") /\ UNCHANGED endian
                      ELSE IF ~VersionOk(r.val)
                      THEN Fail("UnsupportedVersion") /\ UNCHANGED endian
                      ELSE /\ pc' = "IdentificationRead"
                           /\ endian' = r.val["EI_DATA"]
                           /\ UNCHANGED err
    /\ UNCHANGED << buf, Elf_Ehdr, Elf_Phdr, Elf_Shdr, ehdr, phdrs, shdrs,
                    history >>

\* bm.seek(0) and the branch on EI_CLASS; the else branch builds its message
\* from the undefined name `e_ident`, which raises NameError
ResolveClass ==
    /\ pc = "IdentificationRead"
    /\ pos' = seek(0)
    /\ IF e_ident["EI_CLASS"] = ELFCLASS32
       THEN /\ Elf_Ehdr' = "Elf32_Ehdr"
            /\ Elf_Phdr' = "Elf32_Phdr"
            /\ Elf_Shdr' = "Elf32_Shdr"
            /\ pc' = "ClassResolved"
            /\ UNCHANGED err
       ELSE IF e_ident["EI_CLASS"] = ELFCLASS64
       THEN /\ Elf_Ehdr' = "Elf64_Ehdr"
            /\ Elf_Phdr' = "Elf64_Phdr"
            /\ Elf_Shdr' = "Elf64_Shdr"
            /\ pc' = "ClassResolved"
            /\ UNCHANGED err
       ELSE /\ Fail("NameError")
            /\ UNCHANGED << Elf_Ehdr, Elf_Phdr, Elf_Shdr >>
    /\ UNCHANGED << buf, e_ident, endian, ehdr, phdrs, shdrs, maxRead,
                    history >>

\* readStruct of the file header under `endian`, seek to e_phoff, empty lists
ReadHeader ==
    /\ pc = "ClassResolved"
    /\ LET r == readStruct(buf, pos, Scheme(Elf_Ehdr), endian)
       IN  /\ maxRead' = Max(maxRead, r.pos)
           /\ IF ~r.ok
              THEN /\ Fail("TruncatedInput")
                   /\ pos' = r.pos
                   /\ UNCHANGED << ehdr, phdrs, shdrs >>
              ELSE /\ ehdr' = r.val
                   /\ pos' = seek(r.val["e_phoff"])
                   /\ phdrs' = <<>>
                   /\ shdrs' = <<>>
                   /\ pc' = "HeaderRead"
                   /\ UNCHANGED err
    /\ UNCHANGED << buf, e_ident, locals, history >>

\* one round of the program-header loop
ReadPhdr ==
    /\ pc = "HeaderRead"
    /\ InRange(Len(phdrs), ehdr["e_phnum"])
    /\ LET r == readStruct(buf, pos, Scheme(Elf_Phdr), endian)
       IN  /\ pos' = r.pos
           /\ maxRead' = Max(maxRead, r.pos)
           /\ IF ~r.ok
              THEN Fail("TruncatedInput") /\ UNCHANGED phdrs
              ELSE /\ phdrs' = append(phdrs, r.val)
                   /\ UNCHANGED << pc, err >>
    /\ UNCHANGED << buf, e_ident, locals, ehdr, shdrs, history >>

\* the program-header loop is over: bm.seek(self.ehdr["e_shoff"])
SeekShdrs ==
    /\ pc = "HeaderRead"
    /\ ~InRange(Len(phdrs), ehdr["e_phnum"])
    /\ pos' = seek(ehdr["e_shoff"])
    /\ pc' = "ProgramHeadersRead"
    /\ UNCHANGED << buf, err, model, locals, maxRead, history >>

\* one round of the section-header loop
ReadShdr ==
    /\ pc = "ProgramHeadersRead"
    /\ InRange(Len(shdrs), ehdr["e_shnum"])
    /\ LET r == readStruct(buf, pos, Scheme(Elf_Shdr), endian)
       IN  /\ pos' = r.pos
           /\ maxRead' = Max(maxRead, r.pos)
           /\ IF ~r.ok
              THEN Fail("TruncatedInput") /\ UNCHANGED shdrs
              ELSE /\ shdrs' = append(shdrs, r.val)
                   /\ UNCHANGED << pc, err >>
    /\ UNCHANGED << buf, e_ident, locals, ehdr, phdrs, history >>

\* the section-header loop is over
EndShdrs ==
    /\ pc = "ProgramHeadersRead"
    /\ ~InRange(Len(shdrs), ehdr["e_shnum"])
    /\ pc' = "SectionHeadersRead"
    /\ UNCHANGED << buf, pos, err, model, locals, maxRead, history >>

\* _parse and __init__ return: the caller holds the object
Return ==
    /\ pc = "SectionHeadersRead"
    /\ pc' = "Parsed"
    /\ UNCHANGED << buf, pos, err, model, locals, maxRead, history >>

(***************************************************************************)
(* The caller edits a header field between parse and emit                  *)
(***************************************************************************)
Edits ==
    { <<"e_phnum", Len(phdrs) + 1>>, <<"e_shnum", Len(shdrs) + 1>>,
      <<"e_type", 65536>>, <<"e_entry", 7>>, <<"e_flags", 9>> }

MutateHeader ==
    /\ pc = "Parsed"
    /\ muts < MaxMuts
    /\ \E e \in Edits : ehdr' = [ehdr EXCEPT ![e[1]] = e[2]]
    /\ muts' = muts + 1
    /\ UNCHANGED << buf, pos, pc, err, e_ident, phdrs, shdrs, locals,
                    maxRead, orig, emits, last, marshalling >>

(***************************************************************************)
(* ELF.serialize and ELF.read                                              *)
(***************************************************************************)
\* `for i in range(n): bm.writeStruct(list[i], scheme, endian = endian)`
\* from round i on; list[i] past the end raises IndexError
RECURSIVE writeEntries(_, _, _, _, _, _, _)
writeEntries(b, p, list, scheme, order, i, n) ==
    IF ~InRange(i, n) THEN [ok |-> TRUE, buf |-> b, pos |-> p, err |-> ""]
    ELSE IF i + 1 > Len(list)
    THEN [ok |-> FALSE, buf |-> b, pos |-> p, err |-> "IndexError"]
    ELSE LET w == writeStruct(b, p, list[i + 1], scheme, order)
         IN  IF ~w.ok
             THEN [ok |-> FALSE, buf |-> w.buf, pos |-> w.pos,
                   err |-> "struct.error"]
             ELSE writeEntries(w.buf, w.pos, list, scheme, order, i + 1, n)

\* the byte order serialize writes the file header under: writeStruct is
\* called without `endian`, so its default applies
HeaderOrder(order) == ELFDATA2LSB

\* where serialize writes the file header: it does not seek first
HeaderAt(p) == p

\* ELF.serialize on file (b, p): the file it leaves, and whether it raised
serialize(b, p, ident, hdr, phs, shs) ==
    IF ident["EI_CLASS"] \notin {ELFCLASS32, ELFCLASS64}
    THEN [ok |-> FALSE, buf |-> b, pos |-> p, err |-> "NameError"]
    ELSE
    LET cls   == ident["EI_CLASS"]
        order == ident["EI_DATA"]
        w0    == writeStruct(b, HeaderAt(p), hdr, EhdrOf(cls), HeaderOrder(order))
    IN  IF ~w0.ok
        THEN [ok |-> FALSE, buf |-> w0.buf, pos |-> w0.pos,
              err |-> "struct.error"]
        ELSE
        LET w1 == writeEntries(w0.buf, seek(hdr["e_phoff"]), phs, PhdrOf(cls),
                               order, 0, hdr["e_phnum"])
        IN  IF ~w1.ok THEN w1
            ELSE writeEntries(w1.buf, seek(hdr["e_shoff"]), shs, ShdrOf(cls),
                              order, 0, hdr["e_shnum"])

\* ELF.read: serialize, then the bytes of the fresh BytesIO serialize made
Emit ==
    /\ pc = "Parsed"
    /\ emits < MaxEmits
    /\ LET s == serialize(buf, pos, e_ident, ehdr, phdrs, shdrs)
       IN  /\ buf' = s.buf
           /\ pos' = IF s.ok THEN 0 ELSE s.pos
           /\ last' = [status |-> IF s.ok THEN "ok" ELSE "failed",
                       err    |-> s.err,
                       out    |-> IF s.ok THEN s.buf ELSE <<>>,
                       pre    |-> buf,
                       prePos |-> pos,
                       first  |-> IF last.first = <<>> /\ s.ok THEN s.buf
                                  ELSE last.first,
                       muts   |-> muts]
    /\ emits' = emits + 1
    /\ UNCHANGED << pc, err, model, locals, maxRead, orig, muts,
                    marshalling >>

Next ==
    \/ ReadIdent
    \/ ResolveClass
    \/ ReadHeader
    \/ ReadPhdr
    \/ SeekShdrs
    \/ ReadShdr
    \/ EndShdrs
    \/ Return
    \/ MutateHeader
    \/ Emit

Spec == Init /\ [][Next]_vars

(***************************************************************************)
(* ELF(path) on bytes an emit returned: _parse as one function             *)
(***************************************************************************)
\* `for _ in range(n): list.append(bm.readStruct(scheme, endian = endian))`
RECURSIVE readEntries(_, _, _, _, _, _)
readEntries(b, p, scheme, order, n, list) ==
    IF ~InRange(Len(list), n) THEN [ok |-> TRUE, val |-> list, pos |-> p]
    ELSE LET r == readStruct(b, p, scheme, order)
         IN  IF ~r.ok THEN [ok |-> FALSE, val |-> list, pos |-> r.pos]
             ELSE readEntries(b, r.pos, scheme, order, n, append(list, r.val))

NoModel == [ok |-> FALSE, e_ident |-> EmptyDict, ehdr |-> EmptyDict,
            phdrs |-> <<>>, shdrs |-> <<>>]

\* the header model ELF._parse builds from the bytes b, ok = FALSE if it raises
parse(b) ==
    LET i == readStruct(b, 0, Elf_Ident, ELFDATA2MSB)
    IN  IF ~i.ok THEN NoModel
        ELSE IF ~MagicOk(i.val) THEN NoModel
        ELSE IF ~VersionOk(i.val) THEN NoModel
        ELSE IF i.val["EI_CLASS"] \notin {ELFCLASS32, ELFCLASS64} THEN NoModel
        ELSE
        LET cls   == i.val["EI_CLASS"]
            order == i.val["EI_DATA"]
            h     == readStruct(b, seek(0), EhdrOf(cls), order)
        IN  IF ~h.ok THEN NoModel
            ELSE
            LET ph == readEntries(b, seek(h.val["e_phoff"]), PhdrOf(cls),
                                  order, h.val["e_phnum"], <<>>)
            IN  IF ~ph.ok THEN NoModel
                ELSE
                LET sh == readEntries(b, seek(h.val["e_shoff"]), ShdrOf(cls),
                                      order, h.val["e_shnum"], <<>>)
                IN  IF ~sh.ok THEN NoModel
                    ELSE [ok |-> TRUE, e_ident |-> i.val, ehdr |-> h.val,
                          phdrs |-> ph.val, shdrs |-> sh.val]

(***************************************************************************)
(* A BinaryMarshaller used directly.  Its caller works with one type (an   *)
(* integer type, "char" for bytes and strings, or a scheme), one byte      *)
(* order and one offset of its own, and holds the last field map it got.   *)
(***************************************************************************)
Spin == 2

Bytes2 == {0, 1, 2, 255}

ShortBuffers ==
    { <<b0, b1>> : b0 \in Bytes2, b1 \in Bytes2 } \cup { <<>>, <<65, 0, 66>> }

Images ==
    { Image(ELFMAG, cls, data, EV_CURRENT, 1, 1, "ph_sh") :
        cls \in {ELFCLASS32, ELFCLASS64},
        data \in {ELFDATA2LSB, ELFDATA2MSB} }

ScalarTypes == {"uint16", "Elf32_Half", "Elf64_Half"}

StructNames == { "Elf_Ident", "Elf32_Ehdr", "Elf64_Ehdr", "Elf32_Phdr",
                 "Elf64_Phdr", "Elf32_Shdr", "Elf64_Shdr" }

SchemeOf(name) == IF name \in schemes THEN Globals(name) ELSE Scheme(name)

\* the offsets a caller of its own picks: start, end, and for an image the
\* start of either table
OwnOffsets(b) ==
    IF Len(b) > EI_NIDENT
    THEN { 0, SchemeSize(EhdrOf(b[5])),
           SchemeSize(EhdrOf(b[5])) + SchemeSize(PhdrOf(b[5])) }
    ELSE { 0, Len(b) }

\* buffer, and the caller's type, order and offset
MInputs ==
    (ShortBuffers \X (ScalarTypes \cup {"char"}) \X {ELFDATA2LSB, ELFDATA2MSB})
    \cup (Images \X StructNames \X {ELFDATA2LSB, ELFDATA2MSB})

\* the bytes of an integer field, least significant first
BySignificance(order, bs) ==
    IF order = ELFDATA2LSB THEN bs
    ELSE [i \in 1..Len(bs) |-> bs[Len(bs) + 1 - i]]

\* the value of the field is below 2^31, the range this model computes in
SmallField(order, bs) ==
    LET s == BySignificance(order, bs)
    IN  \A i \in 4..Len(s) : IF i = 4 THEN s[i] < 128 ELSE s[i] = 0

\* every integer field of the record at p is below 2^31 under the order
RECURSIVE SmallAt(_, _, _, _)
SmallAt(b, p, scheme, order) ==
    IF scheme = <<>> THEN TRUE
    ELSE LET typename == Head(scheme)[2][1]
             size     == SchemeSize(<<Head(scheme)>>)
         IN  /\ IF typename \in schemes THEN TRUE
                ELSE IF typeNames[typename] = "s" THEN TRUE
                ELSE SmallField(order, fileRead(b, p, size).data)
             /\ SmallAt(b, p + size, Tail(scheme), order)

\* BinaryMarshaller(file) over a fresh BytesIO
InitM ==
    /\ \E in \in MInputs :
         /\ buf = in[1]
         /\ \E p \in OwnOffsets(in[1]) :
              held = [NoHeld EXCEPT !.scheme = in[2], !.order = in[3],
                                    !.at = p]
    /\ orig = buf
    /\ pos = 0
    /\ pc = "Marshaller"
    /\ err = ""
    /\ e_ident = EmptyDict
    /\ endian = 0
    /\ Elf_Ehdr = ""
    /\ Elf_Phdr = ""
    /\ Elf_Shdr = ""
    /\ ehdr = EmptyDict
    /\ phdrs = <<>>
    /\ shdrs = <<>>
    /\ maxRead = 0
    /\ emits = 0
    /\ muts = 0
    /\ last = NoCall
    /\ ret = NoRet

\* what no call on the marshaller touches
ELFUnchanged ==
    UNCHANGED << err, model, locals, maxRead, orig, emits, muts, last >>

\* the record of a call: what it was, where the cursor was, what came before
Call(op, ok, val) ==
    [op |-> op, off |-> pos, ok |-> ok, val |-> val, prevOp |-> ret.op,
     prevOff |-> ret.off, again |-> FALSE]

\* bm.seek(offset)
MSeek ==
    /\ pc = "Marshaller"
    /\ \E offset \in {0, Len(buf) + 1, held.at, held.from} :
         /\ pos' = seek(offset)
         /\ ret' = [Call("seek", TRUE, 0) EXCEPT !.off = offset]
    /\ UNCHANGED << buf, held, pc >>
    /\ ELFUnchanged

\* bm.tell()
tell(p) == p

MTell ==
    /\ pc = "Marshaller"
    /\ ret' = Call("tell", TRUE, tell(pos))
    /\ UNCHANGED << buf, pos, held, pc >>
    /\ ELFUnchanged

\* bm.read(typeName, 1, endian) of an integer type
MRead ==
    /\ pc = "Marshaller"
    /\ held.scheme \in ScalarTypes
    /\ LET r == read(buf, pos, held.scheme, 1, held.order)
       IN  /\ pos' = r.pos
           /\ ret' = Call("read", r.ok, r.val)
    /\ UNCHANGED << buf, held, pc >>
    /\ ELFUnchanged

\* bm.readBytes(numBytes)
MReadBytes ==
    /\ pc = "Marshaller"
    /\ held.scheme = "char"
    /\ \E numBytes \in {1, 2} :
         LET r == fileRead(buf, pos, numBytes)
         IN  /\ pos' = r.pos
             /\ ret' = Call("readBytes", TRUE, r.data)
    /\ UNCHANGED << buf, held, pc >>
    /\ ELFUnchanged

\* m = bm.readStruct(scheme, endian)
MReadStruct ==
    /\ pc = "Marshaller"
    /\ held.scheme \in StructNames
    /\ SmallAt(buf, pos, SchemeOf(held.scheme), held.order)
    /\ LET r == readStruct(buf, pos, SchemeOf(held.scheme), held.order)
       IN  /\ pos' = r.pos
           /\ ret' = [Call("readStruct", r.ok, r.val)
                        EXCEPT !.again = held.written /\ held.from = pos]
           /\ held' = IF r.ok
                      THEN [held EXCEPT !.has = TRUE, !.m = r.val,
                                        !.from = pos, !.pre = buf,
                                        !.written = FALSE,
                                        !.m0 = IF held.written /\ held.from = pos
                                               THEN held.m ELSE <<>>]
                      ELSE held
    /\ UNCHANGED << buf, pc >>
    /\ ELFUnchanged

\* bm.writeStruct(m, scheme, endian) of the map the caller holds, at the
\* offset the map was read at
MWriteStruct ==
    /\ pc = "Marshaller"
    /\ held.has
    /\ pos = held.from
    /\ LET w == writeStruct(buf, pos, held.m, SchemeOf(held.scheme),
                            held.order)
       IN  /\ buf' = w.buf
           /\ pos' = w.pos
           /\ ret' = Call("writeStruct", w.ok, 0)
           /\ held' = [held EXCEPT !.written = TRUE, !.pre = buf]
    /\ UNCHANGED pc
    /\ ELFUnchanged

\* `c == "\x00"` with c a bytes object and "\x00" a str: never equal
IsNul(c) == FALSE

\* bm.readCString(): res = []
MReadCString ==
    /\ pc = "Marshaller"
    /\ held.scheme = "char"
    /\ pc' = "readCString"
    /\ ret' = Call("readCString", FALSE, <<>>)
    /\ UNCHANGED << buf, pos, held >>
    /\ ELFUnchanged

\* one round of readCString's `while True`; the rounds the model follows
\* are capped at Spin past the length of the buffer
MReadCStringRound ==
    /\ pc = "readCString"
    /\ Len(ret.val) < Len(buf) + Spin
    /\ LET c == fileRead(buf, pos, 1)
       IN  /\ pos' = c.pos
           /\ IF IsNul(c.data)
              THEN /\ pc' = "Marshaller"
                   /\ ret' = [ret EXCEPT !.ok = TRUE]
              ELSE /\ pc' = pc
                   /\ ret' = [ret EXCEPT !.val = Append(ret.val, c.data)]
    /\ UNCHANGED << buf, held >>
    /\ ELFUnchanged

NextM ==
    \/ MSeek
    \/ MTell
    \/ MRead
    \/ MReadBytes
    \/ MReadStruct
    \/ MWriteStruct
    \/ MReadCString
    \/ MReadCStringRound

SpecM == InitM /\ [][NextM]_vars

(***************************************************************************)
(* What the input buffer says, byte by byte                                *)
(***************************************************************************)
HasMagic == Len(orig) >= SELFMAG /\ SubSeq(orig, 1, SELFMAG) = ELFMAG
ClassByte == orig[5]
DataByte == orig[6]
VersionByte == orig[7]

\* a complete identification block with every byte in its legal set
ValidIdent ==
    /\ Len(orig) >= EI_NIDENT
    /\ HasMagic
    /\ ClassByte \in {ELFCLASS32, ELFCLASS64}
    /\ DataByte \in {ELFDATA2LSB, ELFDATA2MSB}
    /\ VersionByte = EV_CURRENT

\* the header model has been decoded from the buffer
HeaderDecoded ==
    pc \in {"HeaderRead", "ProgramHeadersRead", "SectionHeadersRead", "Parsed"}

\* both tables the header declares lie inside the input
TablesInside ==
    /\ ehdr["e_phoff"] + ehdr["e_phnum"] * SchemeSize(PhdrOf(ClassByte))
         <= Len(orig)
    /\ ehdr["e_shoff"] + ehdr["e_shnum"] * SchemeSize(ShdrOf(ClassByte))
         <= Len(orig)

(***************************************************************************)
(* C1  Round trip: the first emit after the parse of a valid buffer, with  *)
(* no mutation in between, returns the input byte for byte.                *)
(***************************************************************************)
C1_RoundTrip ==
    (ValidIdent /\ pc = "Parsed" /\ TablesInside /\ muts = 0 /\ emits = 1)
        => (last.status = "ok" /\ last.out = orig)

(***************************************************************************)
(* C2  Magic gate as stated: a buffer whose first 4 bytes are not the      *)
(* magic fails with MagicMismatch and the parse never reads past offset 4. *)
(***************************************************************************)
C2_MagicGateAt4 ==
    (Len(orig) >= SELFMAG /\ ~HasMagic)
        => /\ pc \in {"Unparsed", "Failed"}
           /\ maxRead <= SELFMAG
           /\ pc = "Failed" => err = "MagicMismatch"

(***************************************************************************)
(* C2 amended: a buffer of at least 16 bytes whose first 4 bytes are not   *)
(* the magic fails with MagicMismatch once the whole identification block  *)
(* has been read (cursor at 16, never beyond); a buffer of 4 to 15 bytes   *)
(* fails with TruncatedInput, the cursor stopping at end-of-buffer.        *)
(***************************************************************************)
C2_MagicGate ==
    (Len(orig) >= SELFMAG /\ ~HasMagic)
        => /\ pc \in {"Unparsed", "Failed"}
           /\ maxRead <= EI_NIDENT
           /\ pc = "Failed" =>
                IF Len(orig) >= EI_NIDENT
                THEN err = "MagicMismatch" /\ maxRead = EI_NIDENT
                ELSE err = "TruncatedInput" /\ maxRead = Len(orig)

C2_Witness ==
    /\ Len(orig) > EI_NIDENT
    /\ ~HasMagic
    /\ pc = "Failed"
    /\ err = "MagicMismatch"
    /\ maxRead = EI_NIDENT

(***************************************************************************)
(* C3  Unknown data encoding: with valid magic and version and a data      *)
(* byte that is neither 1 nor 2, the parse fails with UnknownDataEncoding  *)
(* and never decodes the file header.                                      *)
(***************************************************************************)
C3_UnknownDataEncoding ==
    (Len(orig) >= EI_NIDENT /\ HasMagic /\ VersionByte = EV_CURRENT
       /\ ClassByte \in {ELFCLASS32, ELFCLASS64}
       /\ DataByte \notin {ELFDATA2LSB, ELFDATA2MSB})
        => /\ ~HeaderDecoded
           /\ pc = "Failed" => err \in {"UnknownDataEncoding", "TruncatedInput"}

(***************************************************************************)
(* C4  Truncation detection: with a valid identification block, a read of  *)
(* the file header or of a table entry that needs more bytes than remain   *)
(* ends the parse with TruncatedInput and leaves the sequences as they     *)
(* were; a model is only ever returned when the header and both declared   *)
(* tables lie inside the buffer.                                           *)
(***************************************************************************)
\* the read that is about to happen needs more bytes than remain
C4_ShortOfBytes ==
    \/ pc = "ClassResolved" /\ SchemeSize(Scheme(Elf_Ehdr)) > Len(buf) - pos
    \/ /\ pc = "HeaderRead"
       /\ Len(phdrs) < ehdr["e_phnum"]
       /\ SchemeSize(Scheme(Elf_Phdr)) > Len(buf) - pos
    \/ /\ pc = "ProgramHeadersRead"
       /\ Len(shdrs) < ehdr["e_shnum"]
       /\ SchemeSize(Scheme(Elf_Shdr)) > Len(buf) - pos

C4_NoShortModel ==
    (ValidIdent /\ pc \in {"SectionHeadersRead", "Parsed"} /\ muts = 0)
        => /\ SchemeSize(EhdrOf(ClassByte)) <= Len(orig)
           /\ ehdr["e_phnum"] > 0 =>
                ehdr["e_phoff"] + ehdr["e_phnum"] * SchemeSize(PhdrOf(ClassByte))
                    <= Len(orig)
           /\ ehdr["e_shnum"] > 0 =>
                ehdr["e_shoff"] + ehdr["e_shnum"] * SchemeSize(ShdrOf(ClassByte))
                    <= Len(orig)
           /\ Len(phdrs) = ehdr["e_phnum"]
           /\ Len(shdrs) = ehdr["e_shnum"]

C4_Truncation ==
    /\ []C4_NoShortModel
    /\ [][(ValidIdent /\ C4_ShortOfBytes)
            => (pc' = "Failed" /\ err' = "TruncatedInput"
                /\ phdrs' = phdrs /\ shdrs' = shdrs)]_vars
    /\ [][pc = "Failed" => pc' = "Failed"]_vars

C4_Witness ==
    /\ ValidIdent
    /\ pc = "Failed"
    /\ err = "TruncatedInput"
    /\ Len(phdrs) = 1
    /\ ehdr["e_phnum"] = 2

(***************************************************************************)
(* C5  Emission byte order: the file header emit writes is encoded under   *)
(* the byte order captured from EI_DATA at parse time.  Stated where the   *)
(* header was written and no table was written over it.                    *)
(***************************************************************************)
\* the file header encoded under a byte order
EncodedHeader(order) ==
    writeStruct(<<>>, 0, ehdr, EhdrOf(e_ident["EI_CLASS"]), order).buf

\* [a, a + n) and [c, c + m) share no byte
Apart(a, n, c, m) == n = 0 \/ m = 0 \/ a + n <= c \/ c + m <= a

\* the tables of the last emit did not touch the bytes of its header
C5_HeaderIntact ==
    LET hs == SchemeSize(EhdrOf(e_ident["EI_CLASS"]))
    IN  /\ Apart(last.prePos, hs, ehdr["e_phoff"],
                 ehdr["e_phnum"] * SchemeSize(PhdrOf(e_ident["EI_CLASS"])))
        /\ Apart(last.prePos, hs, ehdr["e_shoff"],
                 ehdr["e_shnum"] * SchemeSize(ShdrOf(e_ident["EI_CLASS"])))

C5_EmitOrder ==
    (ValidIdent /\ pc = "Parsed" /\ last.status = "ok" /\ C5_HeaderIntact)
        => SubSeq(last.out, last.prePos + 1,
                  last.prePos + SchemeSize(EhdrOf(e_ident["EI_CLASS"])))
             = EncodedHeader(e_ident["EI_DATA"])

(***************************************************************************)
(* C6  Emit is repeatable: with no mutation, every emit returns the bytes  *)
(* the first emit returned, and emit leaves the header model as it was.    *)
(***************************************************************************)
C6_SameBytes ==
    (ValidIdent /\ pc = "Parsed" /\ muts = 0 /\ last.status = "ok")
        => last.out = last.first

C6_Repeatable ==
    /\ []C6_SameBytes
    /\ [][emits' # emits => model' = model]_vars

(***************************************************************************)
(* C7  No partial output on failed emit: after an emit that raised, the    *)
(* byte buffer is what it was before the call and nothing was returned.    *)
(***************************************************************************)
C7_NoPartialEmit ==
    (ValidIdent /\ pc = "Parsed" /\ last.status = "failed")
        => (buf = last.pre /\ last.out = <<>>)

(***************************************************************************)
(* C8  Unknown class: with valid magic and version and a class byte that   *)
(* is neither 1 nor 2, the parse fails with UnknownClass right after the   *)
(* identification block: nothing beyond offset 16 is read, no model.       *)
(***************************************************************************)
C8_UnknownClass ==
    (Len(orig) >= EI_NIDENT /\ HasMagic /\ VersionByte = EV_CURRENT
       /\ ClassByte \notin {ELFCLASS32, ELFCLASS64})
        => /\ pc \in {"Unparsed", "IdentificationRead", "Failed"}
           /\ maxRead <= EI_NIDENT
           /\ pc = "Failed" => err = "UnknownClass"

(***************************************************************************)
(* C9  Version gate as stated: any buffer with valid magic whose version   *)
(* byte is not 1 fails with UnsupportedVersion.                            *)
(***************************************************************************)
C9_VersionGateAnyLength ==
    (Len(orig) >= 7 /\ HasMagic /\ VersionByte # EV_CURRENT)
        => /\ pc \in {"Unparsed", "Failed"}
           /\ pc = "Failed" => err = "UnsupportedVersion"

(***************************************************************************)
(* C9 amended: a buffer of at least 16 bytes with valid magic whose        *)
(* version byte is not 1 fails with UnsupportedVersion, the cursor at 16   *)
(* (a buffer of 7 to 15 bytes fails with TruncatedInput before the version *)
(* is looked at); and in every parse the magic and the version have both   *)
(* been checked and found good before the class is resolved and the file   *)
(* header is read again from offset 0.                                     *)
(***************************************************************************)
C9_VersionGate ==
    /\ (Len(orig) >= 7 /\ HasMagic /\ VersionByte # EV_CURRENT)
        => /\ pc \in {"Unparsed", "Failed"}
           /\ pc = "Failed" =>
                IF Len(orig) >= EI_NIDENT
                THEN err = "UnsupportedVersion" /\ maxRead = EI_NIDENT
                ELSE err = "TruncatedInput" /\ maxRead = Len(orig)
    /\ (pc \notin {"Unparsed", "Failed"} \/ Elf_Ehdr # "" \/ maxRead > EI_NIDENT)
        => (HasMagic /\ VersionByte = EV_CURRENT)

C9_Witness ==
    /\ Len(orig) > EI_NIDENT
    /\ HasMagic
    /\ VersionByte # EV_CURRENT
    /\ pc = "Failed"
    /\ err = "UnsupportedVersion"
    /\ Elf_Ehdr = ""

(***************************************************************************)
(* C10  Count invariant: in the Parsed state of a successful parse, before *)
(* any mutation, the program-header sequence has e_phnum elements and the  *)
(* section-header sequence has e_shnum elements.                           *)
(***************************************************************************)
C10_Counts ==
    (pc = "Parsed" /\ muts = 0)
        => /\ Len(phdrs) = ehdr["e_phnum"]
           /\ Len(shdrs) = ehdr["e_shnum"]

C10_Witness ==
    /\ pc = "Parsed"
    /\ muts = 0
    /\ ehdr["e_phnum"] = 2
    /\ Len(phdrs) = 2
    /\ ehdr["e_shnum"] = 1
    /\ Len(shdrs) = 1

(***************************************************************************)
(* C11  Sequence order preservation: after a successful parse, element i   *)
(* of the program-header sequence is the decoding of the i-th entry in     *)
(* file order from e_phoff on, and likewise for the section headers from   *)
(* e_shoff on; nothing is reordered, skipped or duplicated.                *)
(***************************************************************************)
\* the record of a scheme that lies at offset p of the input
EntryAt(p, scheme) == readStruct(orig, p, scheme, DataByte).val

C11_FileOrder ==
    (ValidIdent /\ pc = "Parsed" /\ muts = 0)
        => /\ Len(phdrs) = ehdr["e_phnum"]
           /\ \A i \in 1..Len(phdrs) :
                phdrs[i] = EntryAt(ehdr["e_phoff"]
                                     + (i - 1) * SchemeSize(PhdrOf(ClassByte)),
                                   PhdrOf(ClassByte))
           /\ Len(shdrs) = ehdr["e_shnum"]
           /\ \A i \in 1..Len(shdrs) :
                shdrs[i] = EntryAt(ehdr["e_shoff"]
                                     + (i - 1) * SchemeSize(ShdrOf(ClassByte)),
                                   ShdrOf(ClassByte))

\* two entries whose p_type and p_offset decrease in file order
C11_Witness ==
    /\ ValidIdent
    /\ pc = "Parsed"
    /\ muts = 0
    /\ Len(phdrs) = 2
    /\ phdrs[1]["p_type"] = 369
    /\ phdrs[2]["p_type"] = 353
    /\ phdrs[1]["p_offset"] > phdrs[2]["p_offset"]
    /\ Len(shdrs) = 2
    /\ shdrs[1]["sh_name"] = 370
    /\ shdrs[2]["sh_name"] = 354

(***************************************************************************)
(* C12  Class-driven width: program-header entries are read back to back   *)
(* with a stride of 32 bytes for class 1 and 56 bytes for class 2; with    *)
(* e_shnum = 0, a buffer holding exactly e_phnum strides from e_phoff to   *)
(* its end parses with e_phnum entries, and one holding a byte fewer does  *)
(* not parse.                                                              *)
(***************************************************************************)
Stride == IF ClassByte = ELFCLASS32 THEN 32 ELSE 56

C12_Stride ==
    (ValidIdent /\ HeaderDecoded /\ muts = 0)
        => /\ pc = "HeaderRead" => pos = ehdr["e_phoff"] + Len(phdrs) * Stride
           /\ (ehdr["e_shnum"] = 0 /\ ehdr["e_phnum"] > 0
                 /\ Len(orig) = ehdr["e_phoff"] + ehdr["e_phnum"] * Stride)
                => (pc = "Parsed" => Len(phdrs) = ehdr["e_phnum"])
           /\ (ehdr["e_shnum"] = 0 /\ ehdr["e_phnum"] > 0
                 /\ Len(orig) = ehdr["e_phoff"] + ehdr["e_phnum"] * Stride - 1)
                => (pc = "HeaderRead" /\ Len(phdrs) < ehdr["e_phnum"])

C12_Exact ==
    (ValidIdent /\ pc = "Failed" /\ Elf_Phdr # "" /\ ehdr # EmptyDict)
        => ~(ehdr["e_shnum"] = 0 /\ ehdr["e_phnum"] > 0
               /\ Len(orig) = ehdr["e_phoff"] + ehdr["e_phnum"] * Stride)

C12_ClassWidth == C12_Stride /\ C12_Exact

C12_Witness ==
    /\ ValidIdent
    /\ ClassByte = ELFCLASS64
    /\ pc = "Parsed"
    /\ muts = 0
    /\ ehdr["e_shnum"] = 0
    /\ ehdr["e_phnum"] = 2
    /\ Len(phdrs) = 2
    /\ Len(orig) = ehdr["e_phoff"] + 2 * 56

(***************************************************************************)
(* C13  The byte-order argument is honoured by read: two bytes b0 b1 read  *)
(* as a 16-bit unsigned type give b0 + 256*b1 under little-endian and      *)
(* 256*b0 + b1 under big-endian, whatever the name of the 16-bit type;     *)
(* the bytes 02 00 give 2 and 512.                                         *)
(***************************************************************************)
C13_ByteOrder ==
    (ret.op = "read" /\ ret.off + 2 <= Len(buf))
        => /\ ret.ok
           /\ ret.val = IF held.order = ELFDATA2LSB
                        THEN buf[ret.off + 1] + 256 * buf[ret.off + 2]
                        ELSE 256 * buf[ret.off + 1] + buf[ret.off + 2]
           /\ (buf[ret.off + 1] = 2 /\ buf[ret.off + 2] = 0)
                => ret.val = IF held.order = ELFDATA2LSB THEN 2 ELSE 512

C13_Witness ==
    /\ ret.op = "read"
    /\ held.scheme = "Elf32_Half"
    /\ held.order = ELFDATA2MSB
    /\ buf = <<2, 0>>
    /\ ret.off = 0
    /\ ret.val = 512

(***************************************************************************)
(* C14  Marshaller round trip: a field map m returned by readStruct at     *)
(* offset p, written back with writeStruct at p under the same scheme and  *)
(* order, leaves the bytes as they were, and readStruct at p then returns  *)
(* a map equal to m in every field.                                        *)
(***************************************************************************)
C14_MarshalRoundTrip ==
    /\ held.written => buf = held.pre
    /\ (ret.op = "writeStruct" /\ held.written) => ret.ok
    /\ (ret.op = "readStruct" /\ ret.again) => (ret.ok /\ held.m = held.m0)

C14_Witness ==
    /\ ret.op = "readStruct"
    /\ ret.again
    /\ ret.ok
    /\ held.scheme = "Elf64_Shdr"
    /\ held.order = ELFDATA2MSB
    /\ ret.off = 120
    /\ held.m["sh_name"] = 370
    /\ buf = orig

(***************************************************************************)
(* C15  Emit writes the file header at offset 0 on every call, the first   *)
(* after the parse included: no header bytes appear at the cursor the      *)
(* parse left, so an emit of an untouched little-endian model leaves the   *)
(* bytes there as they were and the image as long as it was.               *)
(***************************************************************************)
\* the n bytes of b from offset p on, fewer if b ends before
Slice(b, p, n) == fileRead(b, p, n).data

C15_HeaderAtOffsetZero ==
    LET hs == SchemeSize(EhdrOf(ClassByte))
    IN  (ValidIdent /\ DataByte = ELFDATA2LSB /\ pc = "Parsed" /\ muts = 0
           /\ TablesInside /\ last.status = "ok" /\ C5_HeaderIntact)
            => /\ Slice(last.out, last.prePos, hs)
                    = Slice(last.pre, last.prePos, hs)
               /\ Len(last.out) = Len(last.pre)
               /\ SubSeq(last.out, 1, hs) = EncodedHeader(ELFDATA2LSB)

(***************************************************************************)
(* C16  Edit, emit, re-parse: after one edit of a header field that is not *)
(* part of the layout (e_entry or e_flags), the bytes the next emit        *)
(* returns parse to a model equal to the edited one.                       *)
(***************************************************************************)
\* the header model differs from the header of the input in e_entry and
\* e_flags at most, and in one of them
NonLayoutEdit ==
    LET h == readStruct(orig, 0, EhdrOf(ClassByte), DataByte).val
    IN  /\ ehdr # h
        /\ \A f \in DOMAIN ehdr \ {"e_entry", "e_flags"} : ehdr[f] = h[f]

C16_EditEmitReparse ==
    (ValidIdent /\ DataByte = ELFDATA2LSB /\ pc = "Parsed" /\ TablesInside
       /\ muts = 1 /\ last.muts = 1 /\ emits = 1 /\ NonLayoutEdit)
        => /\ last.status = "ok"
           /\ parse(last.out)
                = [ok |-> TRUE, e_ident |-> e_ident, ehdr |-> ehdr,
                   phdrs |-> phdrs, shdrs |-> shdrs]

(***************************************************************************)
(* C17  Emission performs no layout validation: with a sequence longer or  *)
(* shorter than the count the header declares, or with regions that        *)
(* overlap, emit still completes and returns bytes, without any error.     *)
(***************************************************************************)
\* a count of the header model differs from the length of its sequence
CountMismatch ==
    Len(phdrs) # ehdr["e_phnum"] \/ Len(shdrs) # ehdr["e_shnum"]

C17_EmitNeverFails ==
    (ValidIdent /\ pc = "Parsed" /\ emits >= 1 /\ last.muts = muts
       /\ CountMismatch /\ Fits(ehdr["e_type"], 2))
        => (last.status = "ok" /\ last.out # <<>>)

(***************************************************************************)
(* C18  Every operation is bounded: each marshaller operation, from every  *)
(* cursor position, ends after a bounded number of fixed-size reads, so    *)
(* readCString, while it runs, has kept no more one-byte reads than the    *)
(* buffer has bytes.                                                       *)
(***************************************************************************)
C18_BoundedReads ==
    pc = "readCString" => Len(ret.val) <= Len(buf)

(***************************************************************************)
(* C19  Parse is a strictly ordered one-shot state machine: Unparsed,      *)
(* IdentificationRead, ClassResolved, HeaderRead, ProgramHeadersRead,      *)
(* SectionHeadersRead, Parsed, one after the other, never skipping one,    *)
(* repeating one or going back; every program-header read is done before   *)
(* the seek to the section-header table; a failure leads to Failed, which  *)
(* nothing leaves, and no read is retried.                                 *)
(***************************************************************************)
ParseOrder ==
    << "Unparsed", "IdentificationRead", "ClassResolved", "HeaderRead",
       "ProgramHeadersRead", "SectionHeadersRead", "Parsed" >>

\* the place of a state in the order, 0 for Failed
Rank(s) ==
    IF s = "Failed" THEN 0
    ELSE CHOOSE i \in 1..Len(ParseOrder) : ParseOrder[i] = s

C19_Step ==
    /\ pc # "Failed"
    /\ pc' # pc => \/ Rank(pc') = Rank(pc) + 1
                   \/ pc' = "Failed" /\ err' # "" /\ Rank(pc) <= 5
    /\ (pc' = pc /\ pc = "HeaderRead")
         => /\ Len(phdrs') = Len(phdrs) + 1
            /\ Len(phdrs') <= ehdr["e_phnum"]
            /\ shdrs' = shdrs
    /\ (pc' = pc /\ pc = "ProgramHeadersRead")
         => /\ Len(shdrs') = Len(shdrs) + 1
            /\ Len(shdrs') <= ehdr["e_shnum"]
            /\ phdrs' = phdrs
    /\ pc' = pc => pc \in {"HeaderRead", "ProgramHeadersRead", "Parsed"}
    /\ (pc = "HeaderRead" /\ pc' = "ProgramHeadersRead")
         => /\ Len(phdrs) = ehdr["e_phnum"]
            /\ Len(shdrs) = 0
            /\ pos' = ehdr["e_shoff"]
    /\ (pc = "ProgramHeadersRead" /\ pc' = "SectionHeadersRead")
         => Len(shdrs) = ehdr["e_shnum"]
    /\ Rank(pc) >= 5 => phdrs' = phdrs
    /\ Rank(pc) >= 6 => shdrs' = shdrs

C19_OneShot == [][C19_Step]_vars

C19_Witness ==
    /\ pc = "Parsed"
    /\ muts = 0
    /\ emits = 0
    /\ Len(phdrs) = 2
    /\ Len(shdrs) = 2
    /\ pos = ehdr["e_shoff"] + 2 * SchemeSize(ShdrOf(ClassByte))

(***************************************************************************)
(* C20  Unchecked seek: a seek to an offset beyond the end of the buffer   *)
(* succeeds and leaves the cursor at exactly that offset; the next read    *)
(* of a record fails with TruncatedInput.  So a buffer whose e_phnum and   *)
(* e_shnum are 0 parses even with e_phoff and e_shoff beyond its end,      *)
(* while a declared entry there makes the parse fail.                      *)
(***************************************************************************)
C20_UncheckedSeek ==
    (ValidIdent /\ ehdr # EmptyDict /\ muts = 0)
        => /\ (pc = "HeaderRead" /\ Len(phdrs) = 0) => pos = ehdr["e_phoff"]
           /\ (pc = "ProgramHeadersRead" /\ Len(shdrs) = 0)
                => pos = ehdr["e_shoff"]
           /\ (ehdr["e_phoff"] > Len(orig) /\ ehdr["e_phnum"] > 0)
                => /\ pc \in {"HeaderRead", "Failed"}
                   /\ phdrs = <<>>
                   /\ pc = "Failed" => err = "TruncatedInput"
           /\ (ehdr["e_shoff"] > Len(orig) /\ ehdr["e_shnum"] > 0)
                => /\ pc \in {"HeaderRead", "ProgramHeadersRead", "Failed"}
                   /\ shdrs = <<>>
                   /\ pc = "Failed" => err = "TruncatedInput"
           /\ (ehdr["e_phnum"] = 0 /\ ehdr["e_shnum"] = 0) => pc # "Failed"

C20_Witness ==
    /\ ValidIdent
    /\ pc = "Parsed"
    /\ muts = 0
    /\ emits = 0
    /\ ehdr["e_phnum"] = 0
    /\ ehdr["e_shnum"] = 0
    /\ ehdr["e_phoff"] > Len(orig)
    /\ ehdr["e_shoff"] > Len(orig)
    /\ pos = ehdr["e_shoff"]
    /\ pos > Len(buf)

(***************************************************************************)
(* C21  The identification block is byte-order independent: the first 16   *)
(* bytes of any buffer decode to the same field map under little-endian    *)
(* and under big-endian; so the identification block nested as the first   *)
(* field of the file header, re-read under the resolved order, equals the  *)
(* one the bootstrap step read under the nominal order.                    *)
(***************************************************************************)
\* the identification block has been read and the parse went on
IdentRead == pc \notin {"Unparsed", "Failed", "Marshaller", "readCString"}

C21_IdentOrderFree ==
    /\ Len(orig) >= EI_NIDENT
         => readStruct(orig, 0, Elf_Ident, ELFDATA2LSB)
              = readStruct(orig, 0, Elf_Ident, ELFDATA2MSB)
    /\ IdentRead
         => /\ e_ident = readStruct(orig, 0, Elf_Ident, ELFDATA2LSB).val
            /\ e_ident = readStruct(orig, 0, Elf_Ident, endian).val
    /\ HeaderDecoded => ehdr["e_ident"] = e_ident

\* a little-endian image parsed: the nominal order of the bootstrap read
\* differs from the resolved one
C21_Witness ==
    /\ pc = "Parsed"
    /\ muts = 0
    /\ DataByte = ELFDATA2LSB
    /\ endian = ELFDATA2LSB
    /\ e_ident["EI_OSABI"] = 3
    /\ e_ident["EI_PAD"] = <<0, 0, 0, 0, 0, 0, 9>>
    /\ ehdr["e_ident"] = e_ident

=============================================================================
